---- MODULE Spec2Model ----
(***************************************************************************)
(* tastypie_swagger: the mapping of tastypie resources to an OpenAPI 3.0.1 *)
(* document (mapping.py), the documentation view (views.py, urls.py) and   *)
(* the build_api_docs management command.                                  *)
(*                                                                         *)
(* Python values are modelled as follows.                                  *)
(*   - str built by formatting or joining: a sequence of string tokens     *)
(*     (concatenation is \o); a plain literal is a TLA+ string.            *)
(*   - dict built key by key: an association list <<[k |-> .., v |-> ..]>> *)
(*     in insertion order; a dict literal with fixed keys: a record.       *)
(*   - list: a sequence.                                                   *)
(*   - a mutable object that outlives the expression creating it, or that  *)
(*     is reached through another object: an address into a heap           *)
(*     [mem, next, writes]; mem maps addresses to contents, next is the    *)
(*     next free address, writes collects the addresses mutated in place.  *)
(*   - a call that can raise: a record [h, err, v], err = "none" or the    *)
(*     exception's class name.                                             *)
(***************************************************************************)
EXTENDS Integers, Sequences, FiniteSets, TLC

VARIABLES
    settings,    \* django.conf.settings, as seen by getattr
    resources,   \* the registered tastypie resources' metadata
    heap,        \* contents of the objects that live across calls
    built,       \* per server_url argument: what build_openapi_spec last did
    context,     \* the template context of the last documentation request
    pc,          \* position of the build_api_docs command
    stdout,      \* what the command has written to stdout in this run
    dest         \* the directory TASTYPIE_SWAGGER_DOCS_DIR on disk

vars == <<settings, resources, heap, built, context, pc, stdout, dest>>

(***************************************************************************)
(* Python builtins used by the code                                        *)
(***************************************************************************)

\* x in list
Contains(s, x) == \E i \in 1..Len(s) : s[i] = x

\* k in dict
HasKey(d, k) == \E i \in 1..Len(d) : d[i].k = k

\* dict[k]
DictGet(d, k) == d[CHOOSE i \in 1..Len(d) : d[i].k = k].v

\* dict[k] = v : an existing key keeps its position
DictSet(d, k, v) ==
    IF HasKey(d, k)
    THEN [i \in 1..Len(d) |-> IF d[i].k = k THEN [k |-> k, v |-> v] ELSE d[i]]
    ELSE Append(d, [k |-> k, v |-> v])

\* dict.update(other dict)
RECURSIVE DictUpdate(_, _)
DictUpdate(d, e) ==
    IF e = <<>> THEN d
    ELSE DictUpdate(DictSet(d, Head(e).k, Head(e).v), Tail(e))

\* the keys of a dict, as a set
KeySet(d) == {d[i].k : i \in 1..Len(d)}

\* template % arg for a template holding conversion specifiers "%s":
\* with exactly one specifier the argument replaces it, otherwise TypeError
PercentCount(t) == Cardinality({i \in 1..Len(t) : t[i] = "%s"})

PercentFormat(t, arg) ==
    IF PercentCount(t) = 1
    THEN [err |-> "none",
          v |-> [i \in 1..Len(t) |-> IF t[i] = "%s" THEN arg ELSE t[i]]]
    ELSE [err |-> "TypeError", v |-> <<>>]

(***************************************************************************)
(* The heap                                                                *)
(***************************************************************************)

\* a new object with contents v, at address h.next
H_alloc(h, v) == [h EXCEPT !.mem = (h.next :> v) @@ @, !.next = @ + 1]

\* mutation in place of the object at address a
H_write(h, a, v) == [h EXCEPT !.mem[a] = v, !.writes = @ \cup {a}]

\* results of calls
Return(h, v) == [h |-> h, err |-> "none", v |-> v]
Raise(h, e) == [h |-> h, err |-> e, v |-> <<>>]

(***************************************************************************)
(* Objects that exist when the first request arrives                       *)
(***************************************************************************)

\* ResourceSwaggerMapping.OPERATION_SUMMARIES, one dict shared by the class
SummariesAddr == 1

\* the dict settings.TASTYPIE_SWAGGER_OPEN_API_INFO
InfoAddr == 2

\* the registered resources
ResourceIds == {1, 2, 3}

\* resource._meta.list_allowed_methods and detail_allowed_methods: the lists
\* that tastypie's build_schema puts, unchanged, into the schema
ListMethodsAddr(r) == 2 * r + 1
DetailMethodsAddr(r) == 2 * r + 2

SharedAddrs == {SummariesAddr, InfoAddr}
                 \cup {ListMethodsAddr(r) : r \in ResourceIds}
                 \cup {DetailMethodsAddr(r) : r \in ResourceIds}

\* the first address a call allocates
FirstFree == 2 * Cardinality(ResourceIds) + 3

OPERATION_SUMMARIES ==
    << [k |-> <<"get", "-", "detail">>,    v |-> <<"Retrieve a single ", "%s", " by ID">>],
       [k |-> <<"get", "-", "list">>,      v |-> <<"Retrieve a list of ", "%s">>],
       [k |-> <<"post", "-", "list">>,     v |-> <<"Create a new ", "%s">>],
       [k |-> <<"put", "-", "detail">>,    v |-> <<"Update an existing ", "%s">>],
       [k |-> <<"delete", "-", "detail">>, v |-> <<"Delete an existing ", "%s">>] >>


\* filter specifications of a resource's Meta.filtering
ALL == [kind |-> "ALL", terms |-> <<>>]
ALL_WITH_RELATIONS == [kind |-> "ALL_WITH_RELATIONS", terms |-> <<>>]
Terms(t) == [kind |-> "terms", terms |-> t]

\* django.db.models.sql.constants.QUERY_TERMS (a few of them)
QUERY_TERMS == <<"exact", "contains", "gt">>

Field(type, readonly, nullable, help) ==
    [type |-> type, readonly |-> readonly, nullable |-> nullable, help_text |-> help]

(***************************************************************************)
(* Docstrings of resource classes, by what json.loads makes of them.       *)
(*   none    no docstring                                                  *)
(*   prose   text that is not JSON                                         *)
(*   object  a JSON object of paths                                        *)
(*   number, null, string, array: valid JSON that is no object             *)
(***************************************************************************)
CustomUri == <<"/", "custom", "/">>
CustomOperation ==
    [summary |-> <<"custom">>, tags |-> <<"docs">>, parameters |-> <<>>,
     responses |-> [default |-> [description |-> "ok"]]]

DocNone == [kind |-> "none", text |-> <<>>, elems |-> <<>>]
DocProse == [kind |-> "prose", text |-> <<>>, elems |-> <<>>]
DocObject == [kind |-> "object", text |-> <<>>,
              elems |-> <<[type |-> "pair", k |-> CustomUri, v |-> "get"]>>]
DocNumber == [kind |-> "number", text |-> <<>>, elems |-> <<>>]
DocNull == [kind |-> "null", text |-> <<>>, elems |-> <<>>]
DocString == [kind |-> "string", text |-> <<"a", "b", "c">>, elems |-> <<>>]
DocEmptyString == [kind |-> "string", text |-> <<>>, elems |-> <<>>]
DocEmptyArray == [kind |-> "array", text |-> <<>>, elems |-> <<>>]
DocNumberArray == [kind |-> "array", text |-> <<>>,
                   elems |-> <<[type |-> "number", k |-> <<>>, v |-> ""]>>]
DocPairArray == [kind |-> "array", text |-> <<>>,
                 elems |-> <<[type |-> "pair", k |-> CustomUri, v |-> "get"]>>]

MalformedDocs == {DocProse, DocNumber, DocNull, DocString, DocEmptyString,
                  DocEmptyArray, DocNumberArray, DocPairArray}
Docs == {DocNone, DocObject} \cup MalformedDocs


(***************************************************************************)
(* The registered resources.  Api "v1" registers b and a (in that order),  *)
(* Api "v2" registers c.  The allowed-method lists live in the heap.       *)
(***************************************************************************)
ResourceA ==
    [resource_name |-> "a", api_name |-> "v1", module |-> "proj",
     doc |-> DocNone, url_resolves |-> TRUE, uri_attr |-> "get_resource_uri",
     detail_uri_name |-> "pk",
     fields |-> << [k |-> "id", v |-> Field("integer", FALSE, FALSE, "Integer data.")],
                   [k |-> "title", v |-> Field("string", FALSE, TRUE, "Unicode string data.")],
                   [k |-> "owner", v |-> Field("related", FALSE, FALSE, "A single related resource.")] >>,
     has_filtering |-> TRUE,
     filtering |-> << [k |-> "title", v |-> Terms(<<"exact", "startswith">>)],
                      [k |-> "owner", v |-> ALL_WITH_RELATIONS] >>,
     has_ordering |-> TRUE, ordering |-> <<"title">>,
     related |-> << [k |-> "owner", v |-> 2] >>,
     has_model |-> TRUE, verbose_name |-> "Article",
     verbose_name_plural |-> "Articles",
     has_extra_actions |-> FALSE, extra_actions |-> <<>>,
     has_custom_filtering |-> FALSE, custom_filtering |-> <<>>]

ResourceB ==
    [resource_name |-> "b", api_name |-> "v1", module |-> "proj",
     doc |-> DocNone, url_resolves |-> TRUE, uri_attr |-> "get_resource_uri",
     detail_uri_name |-> "slug",
     fields |-> << [k |-> "id", v |-> Field("integer", TRUE, FALSE, "Integer data.")],
                   [k |-> "name", v |-> Field("string", FALSE, FALSE, "Unicode string data.")] >>,
     has_filtering |-> TRUE,
     filtering |-> << [k |-> "name", v |-> ALL],
                      [k |-> "bogus", v |-> Terms(<<"exact">>)] >>,
     has_ordering |-> FALSE, ordering |-> <<>>,
     related |-> <<>>,
     has_model |-> TRUE, verbose_name |-> "author",
     verbose_name_plural |-> "authors",
     has_extra_actions |-> FALSE, extra_actions |-> <<>>,
     has_custom_filtering |-> FALSE, custom_filtering |-> <<>>]

ResourceC ==
    [resource_name |-> "c", api_name |-> "v2", module |-> "shop",
     doc |-> DocNone, url_resolves |-> TRUE, uri_attr |-> "get_resource_list_uri",
     detail_uri_name |-> "pk",
     fields |-> << [k |-> "sku", v |-> Field("string", FALSE, FALSE, "Unicode string data.")] >>,
     has_filtering |-> FALSE, filtering |-> <<>>,
     has_ordering |-> FALSE, ordering |-> <<>>,
     related |-> <<>>,
     has_model |-> FALSE, verbose_name |-> "", verbose_name_plural |-> "",
     has_extra_actions |-> TRUE,
     extra_actions |-> << [name |-> "publish", http_method |-> "post",
                           resource_type |-> "view", summary |-> <<"Publish">>,
                           fields |-> << [k |-> "when",
                                          v |-> [required |-> FALSE,
                                                 description |-> "Date"]] >>] >>,
     has_custom_filtering |-> FALSE, custom_filtering |-> <<>>]

\* Api._registry of each Api instance: resource name -> resource
Registry(api) ==
    IF api = "v1" THEN << [k |-> "b", v |-> 2], [k |-> "a", v |-> 1] >>
    ELSE << [k |-> "c", v |-> 3] >>

\* sys.modules: the loaded modules and their attributes.  An attribute is
\* an Api instance, an object whose method get_api returns an Api instance,
\* or something else.
SysModules ==
    << [k |-> "proj.urls",
        v |-> << [k |-> "v1_api", v |-> [class |-> "Api", api |-> "v1", methods |-> {}]],
                 [k |-> "v2_api", v |-> [class |-> "Api", api |-> "v2", methods |-> {}]],
                 [k |-> "router", v |-> [class |-> "Router", api |-> "v1", methods |-> {"get_api"}]],
                 [k |-> "title", v |-> [class |-> "str", api |-> "", methods |-> {}]] >>] >>

\* getattr(module, obj, None) when the module has no such attribute
NoneObject == [class |-> "NoneType", api |-> "", methods |-> {}]

\* entries of TASTYPIE_SWAGGER_API_MODULE_LIST
EntryKeys == {"path", "obj", "func_name"}
Entry(path, obj, func_name) ==
    [keys |-> EntryKeys, path |-> path, obj |-> obj, func_name |-> func_name]

EntryV1 == Entry("proj.urls", "v1_api", "")
EntryV2 == Entry("proj.urls", "v2_api", "")
EntryRouter == Entry("proj.urls", "router", "get_api")
EntryBadPath == Entry("proj.nowhere", "v1_api", "")
EntryNoKey == [EntryV1 EXCEPT !.keys = {"path", "obj"}]
EntryNoObj == Entry("proj.urls", "missing", "")
EntryNoObjFunc == Entry("proj.urls", "missing", "get_api")
EntryNoFunc == Entry("proj.urls", "v1_api", "get_api")
EntryNotApi == Entry("proj.urls", "title", "")

InvalidEntries == {EntryBadPath, EntryNoKey, EntryNoObj, EntryNoObjFunc,
                   EntryNoFunc, EntryNotApi}

SettingNames == {"TASTYPIE_SWAGGER_API_MODULE_LIST",
                 "TASTYPIE_SWAGGER_OPEN_API_INFO",
                 "TASTYPIE_SWAGGER_SERVER_URL"}

Settings(present, module_list, missing_slash, ignore) ==
    [present |-> present,
     TASTYPIE_SWAGGER_API_MODULE_LIST |-> module_list,
     TASTYPIE_SWAGGER_OPEN_API_INFO |-> InfoAddr,
     TASTYPIE_SWAGGER_SERVER_URL |-> "https://api.example/",
     TASTYPIE_ALLOW_MISSING_SLASH |-> missing_slash,
     TASTYPIE_SWAGGER_IGNORE_PATTERN_LIST |-> ignore]


(***************************************************************************)
(* What the code calls in tastypie and the standard library                *)
(***************************************************************************)

\* str.lower() and str.upper() on the strings that occur
Lower(x) ==
    CASE x = "Article" -> "article"
      [] x = "Articles" -> "articles"
      [] x = "GET" -> "get"
      [] x = "POST" -> "post"
      [] OTHER -> x

Upper(x) ==
    CASE x = "get" -> "GET"
      [] x = "post" -> "POST"
      [] x = "put" -> "PUT"
      [] x = "delete" -> "DELETE"
      [] OTHER -> x

\* Resource.build_schema(): a new dict at each call, whose allowed-method
\* entries are the resource's own lists
build_schema(r) ==
    [fields |-> resources[r].fields,
     has_filtering |-> resources[r].has_filtering,
     filtering |-> resources[r].filtering,
     has_ordering |-> resources[r].has_ordering,
     ordering |-> resources[r].ordering,
     allowed_list_http_methods |-> ListMethodsAddr(r),
     allowed_detail_http_methods |-> DetailMethodsAddr(r)]

\* Resource.get_resource_uri() / get_resource_list_uri(): the reversed URL
\* of the list endpoint, '' when it does not reverse
ResourceUri(r) ==
    IF resources[r].url_resolves
    THEN <<"/", resources[r].api_name, "/", resources[r].resource_name>>
           \o (IF settings.TASTYPIE_ALLOW_MISSING_SLASH THEN <<>> ELSE <<"/">>)
    ELSE <<>>

\* utils.trailing_slash_or_none()
trailing_slash_or_none ==
    IF settings.TASTYPIE_ALLOW_MISSING_SLASH THEN <<>> ELSE <<"/">>

\* utils.urljoin_forced(base, path): urljoin, with '/' appended to a base
\* that does not end with one
urljoin_forced(base, path) ==
    (IF base # <<>> /\ base[Len(base)] = "/" THEN base ELSE base \o <<"/">>)
        \o path

(***************************************************************************)
(* Sequencing.  Bind(r, F) is "r, then F": an exception raised by r ends   *)
(* the call with that exception.  Let(v, F) is "name v, then F".           *)
(***************************************************************************)
Bind(r, F(_)) == IF r.err # "none" THEN r ELSE F(r)
Let(v, F(_)) == F(v)

(***************************************************************************)
(* class ResourceSwaggerMapping                                            *)
(***************************************************************************)

Tags(r) == <<resources[r].module, resources[r].api_name>>

DefaultResponses ==
    [default |-> [description |-> "Unable to get relevant information"]]

\* _get_native_field_type(field), field given by its name
get_native_field_type(r, name) ==
    IF ~HasKey(resources[r].fields, name) THEN "undefined"
    ELSE IF HasKey(resources[r].related, name)
    THEN (IF HasKey(resources[DictGet(resources[r].related, name)].fields, "id")
          THEN DictGet(resources[DictGet(resources[r].related, name)].fields, "id").type
          ELSE "None")
    ELSE DictGet(resources[r].fields, name).type

get_pk_type(r) == get_native_field_type(r, "id")

\* __init__: self.fake_operation is a new dict of this mapping
ResourceSwaggerMapping(r, h) ==
    Return(
        H_alloc(h, << [k |-> "get",
                       v |-> [description |-> "Unable to get relevant information",
                              tags |-> Tags(r),
                              responses |-> DefaultResponses]] >>),
        [resource |-> r,
         resource_name |-> resources[r].resource_name,
         resource_pk_type |-> get_pk_type(r),
         schema |-> build_schema(r),
         fake_operation |-> h.next])

get_resource_verbose_name(m, plural) ==
    IF resources[m.resource].has_model
    THEN Lower(IF plural THEN resources[m.resource].verbose_name_plural
                         ELSE resources[m.resource].verbose_name)
    ELSE m.resource_name

\* summary % verbose_name
format_summary(h, summary, verbose_name) ==
    Let(PercentFormat(summary, verbose_name),
        LAMBDA formatted : [h |-> h, err |-> formatted.err, v |-> formatted.v])

\* variant of get_operation_summary: the formatted summary is kept in
\* OPERATION_SUMMARIES for the next call
get_operation_summary_memoised(m, detail, method, h) ==
    Let(<<Lower(method), "-", IF detail THEN "detail" ELSE "list">>, LAMBDA key :
    Let(get_resource_verbose_name(m, ~detail /\ method = "get"), LAMBDA verbose_name :
    Let(IF HasKey(h.mem[SummariesAddr], key)
        THEN DictGet(h.mem[SummariesAddr], key) ELSE <<>>, LAMBDA summary :
        IF summary # <<>>
        THEN Bind(format_summary(h, summary, verbose_name), LAMBDA formatted :
                  Return(H_write(h, SummariesAddr,
                                 DictSet(h.mem[SummariesAddr], key, formatted.v)),
                         formatted.v))
        ELSE Return(h, <<>>))))

get_operation_summary(m, detail, method, h) ==
    Let(<<Lower(method), "-", IF detail THEN "detail" ELSE "list">>, LAMBDA key :
    Let(get_resource_verbose_name(m, ~detail /\ method = "get"), LAMBDA verbose_name :
    Let(IF HasKey(h.mem[SummariesAddr], key)
        THEN DictGet(h.mem[SummariesAddr], key) ELSE <<>>, LAMBDA summary :
        IF summary # <<>> THEN format_summary(h, summary, verbose_name)
        ELSE Return(h, <<>>))))

get_resource_base_uri(m, h) ==
    IF resources[m.resource].uri_attr \in {"get_resource_list_uri", "get_resource_uri"}
    THEN Return(h, ResourceUri(m.resource))
    ELSE Raise(h, "AttributeError")

PositionNote ==
    "[Note: The position of the parameter is automatically generated and may not be accurate.]"

\* in_ = "" stands for None
build_parameter(in_, name, required, description) ==
    [in |-> IF in_ = "" THEN "query" ELSE in_,
     name |-> name,
     required |-> required,
     description |-> IF in_ = "" THEN description \o <<PositionNote>>
                                 ELSE description,
     schema |-> "{}"]

\* unicode(...) is the Python 2 builtin: the text, unchanged
build_parameters_from_ordering(m) ==
    [in |-> "query",
     name |-> <<"order_by">>,
     required |-> FALSE,
     schema |-> "{}",
     description |-> <<"Orders the result set based on the selection. Ascending order by default, prepending the '-' sign change the sorting order to descending">>]

\* stand-in for the interpreter's recursion limit (sys.getrecursionlimit()),
\* counted in nested calls of build_parameters_from_filters
RecursionLimit == 3

RECURSIVE build_parameters_from_filters(_, _, _, _, _)
RECURSIVE filtering_loop(_, _, _, _, _, _)

\* variant of navigation_filters: limit and offset are added for every GET,
\* the prefix not tested
navigation_filters_for_any_prefix(prefix, method) ==
    IF Upper(method) = "GET"
    THEN << build_parameter("query", <<"limit">>, FALSE,
                <<"Specify the number of element to display per page.">>),
            build_parameter("query", <<"offset">>, FALSE,
                <<"Specify the offset to start displaying element on a page.">>) >>
    ELSE <<>>

\* limit and offset, on the root object of a GET
navigation_filters(prefix, method) ==
    IF prefix = <<>> /\ Upper(method) = "GET"
    THEN << build_parameter("query", <<"limit">>, FALSE,
                <<"Specify the number of element to display per page.">>),
            build_parameter("query", <<"offset">>, FALSE,
                <<"Specify the offset to start displaying element on a page.">>) >>
    ELSE <<>>

\* what `field` is once the integer constants are replaced by query terms
filter_terms(field) ==
    CASE field.kind = "ALL" -> QUERY_TERMS
      [] field.kind = "ALL_WITH_RELATIONS" -> <<"gt", "in", "gte", "lt", "lte", "exact">>
      [] OTHER -> field.terms

\* the parameters of the related resource; KeyError (no such field) and
\* AttributeError (not a related field) are passed over
related_filter_parameters(m, prefix, name, h, depth) ==
    IF ~HasKey(resources[m.resource].fields, name) THEN Return(h, <<>>)
    ELSE IF ~HasKey(resources[m.resource].related, name) THEN Return(h, <<>>)
    ELSE Let(ResourceSwaggerMapping(DictGet(resources[m.resource].related, name), h),
             LAMBDA related_mapping :
         Let(build_parameters_from_filters(
                 related_mapping.v, prefix \o <<name, "__">>, "GET",
                 related_mapping.h, depth + 1),
             LAMBDA sub :
                 IF sub.err \in {"KeyError", "AttributeError"} THEN Return(sub.h, <<>>)
                 ELSE IF sub.err # "none" THEN sub
                 ELSE Return(sub.h, sub.h.mem[sub.v])))

\* variant of term_parameters: the term 'exact' is suffixed like the others
term_parameters_suffixing_exact(m, prefix, name, terms) ==
    IF ~HasKey(m.schema.fields, name) THEN <<>>
    ELSE Let(DictGet(m.schema.fields, name), LAMBDA schema_field :
             [i \in 1..Len(terms) |->
                build_parameter("query", prefix \o <<name, "__", terms[i]>>,
                                FALSE, <<schema_field.help_text>>)])

\* one parameter per query term of a filter on a field of the schema
term_parameters(m, prefix, name, terms) ==
    IF ~HasKey(m.schema.fields, name) THEN <<>>
    ELSE Let(DictGet(m.schema.fields, name), LAMBDA schema_field :
             [i \in 1..Len(terms) |->
                IF terms[i] = "exact"
                THEN build_parameter("query", prefix \o <<name>>, FALSE,
                         IF schema_field.type = "related"
                         THEN <<"ID of related resource">>
                         ELSE <<schema_field.help_text>>)
                ELSE build_parameter("query", prefix \o <<name, "__", terms[i]>>,
                                     FALSE, <<schema_field.help_text>>)])

\* for name, field in self.schema['filtering'].items()
filtering_loop(m, prefix, items, parameters, h, depth) ==
    IF items = <<>> THEN Return(h, parameters)
    ELSE Bind(IF Head(items).v.kind = "ALL_WITH_RELATIONS"
              THEN related_filter_parameters(m, prefix, Head(items).k, h, depth)
              ELSE Return(h, <<>>),
              LAMBDA related :
                  filtering_loop(m, prefix, Tail(items),
                      parameters \o related.v
                          \o term_parameters(m, prefix, Head(items).k,
                                             filter_terms(Head(items).v)),
                      related.h, depth))

\* returns the address of the new list `parameters`
build_parameters_from_filters(m, prefix, method, h, depth) ==
    IF depth > RecursionLimit THEN Raise(h, "RuntimeError")
    ELSE Bind(IF m.schema.has_filtering /\ Upper(method) = "GET"
              THEN filtering_loop(m, prefix, m.schema.filtering,
                                  navigation_filters(prefix, method),
                                  H_alloc(h, <<>>), depth)
              ELSE Return(H_alloc(h, <<>>), navigation_filters(prefix, method)),
              LAMBDA filled :
                  Return(IF filled.v = <<>> THEN filled.h
                         ELSE H_write(filled.h, h.next, filled.v),
                         h.next))

build_parameters_for_list(m, method, h) ==
    Bind(build_parameters_from_filters(m, <<>>, method, h, 1), LAMBDA parameters :
         IF m.schema.has_ordering /\ Upper(method) = "GET"
         THEN Return(H_write(parameters.h, parameters.v,
                             Append(parameters.h.mem[parameters.v],
                                    build_parameters_from_ordering(m))),
                     parameters.v)
         ELSE parameters)

build_parameter_for_object(m, method) ==
    build_parameter("", <<m.resource_name>>, TRUE, <<>>)

\* _detail_uri_name()
detail_uri_name(m) ==
    IF resources[m.resource].detail_uri_name = "pk" THEN "id"
    ELSE resources[m.resource].detail_uri_name

\* returns the list of parameters (a value; the caller stores it)
build_parameters_from_extra_action(m, method, fields, resource_type) ==
    (IF Upper(method) = "GET" \/ resource_type = "view"
     THEN <<build_parameter("path", <<detail_uri_name(m)>>, TRUE, <<"ID of resource">>)>>
     ELSE <<>>)
    \o [i \in 1..Len(fields) |->
          build_parameter("query", <<fields[i].k>>, fields[i].v.required,
                          <<fields[i].v.description>>)]
    \o (IF resources[m.resource].has_custom_filtering
        THEN [i \in 1..Len(resources[m.resource].custom_filtering) |->
                build_parameter("query",
                    <<resources[m.resource].custom_filtering[i].k>>,
                    resources[m.resource].custom_filtering[i].v.required,
                    <<resources[m.resource].custom_filtering[i].v.description>>)]
        ELSE <<>>)

\* the operation dict is returned by value; its 'parameters' is the address
\* of the new list
build_detail_operation(m, method, h) ==
    Bind(get_operation_summary(m, FALSE, method, h), LAMBDA summary :
         Return(H_alloc(summary.h,
                        <<build_parameter("path", <<detail_uri_name(m)>>, TRUE,
                                          <<"ID of resource">>)>>),
                [summary |-> summary.v,
                 tags |-> Tags(m.resource),
                 parameters |-> summary.h.next,
                 responses |-> DefaultResponses]))

build_list_operation(m, method, h) ==
    Bind(get_operation_summary(m, FALSE, method, h), LAMBDA summary :
    Bind(build_parameters_for_list(m, method, summary.h), LAMBDA parameters :
         Return(parameters.h,
                [summary |-> summary.v,
                 tags |-> Tags(m.resource),
                 parameters |-> parameters.v,
                 responses |-> DefaultResponses])))

build_extra_operation(m, extra_action, h) ==
    Return(
        H_alloc(h, build_parameters_from_extra_action(
                       m, extra_action.http_method, extra_action.fields,
                       extra_action.resource_type)),
        [summary |-> extra_action.summary,
         tags |-> Tags(m.resource),
         parameters |-> h.next,
         responses |-> DefaultResponses])

\* operations.update({method: operation}) on the dict at address operations
set_operation(h, operations, method, operation) ==
    H_write(h, operations, DictSet(h.mem[operations], method, operation))

\* operations[method]['parameters'].append(parameter)
append_parameter(h, operations, method, parameter) ==
    H_write(h, DictGet(h.mem[operations], method).parameters,
            Append(h.mem[DictGet(h.mem[operations], method).parameters], parameter))

\* variant of detail_endpoint: the detail path is keyed by the base URI
\* alone, the '{identifier}' segment left out
detail_endpoint_without_identifier(m, base) == base

\* '{%s}%s' % (self._detail_uri_name(), trailing_slash_or_none()), joined
\* to the base URI
detail_endpoint(m, base) ==
    urljoin_forced(base, <<"{", detail_uri_name(m), "}">> \o trailing_slash_or_none)

\* the methods build_detail_path looks for, in its order
DetailMethods == <<"get", "put", "delete">>

\* one `if method in self.schema['allowed_detail_http_methods']` block of
\* build_detail_path, applied to the outcome s of the blocks before it
detail_step(m, operations, method, s) ==
    Bind(s, LAMBDA before :
         IF ~Contains(before.h.mem[m.schema.allowed_detail_http_methods], method)
         THEN before
         ELSE Bind(build_detail_operation(m, method, before.h), LAMBDA operation :
                   Let(set_operation(operation.h, operations, method, operation.v),
                       LAMBDA stored :
                           Return(IF method = "put"
                                  THEN append_parameter(stored, operations, "put",
                                           build_parameter_for_object(m, "put"))
                                  ELSE stored,
                                  operations))))

\* variant of detail_operations: the operations as built, without the
\* fallback to fake_operation
detail_operations_without_fallback(m, operations, h) == operations

\* if not operations: operations = self.fake_operation
detail_operations(m, operations, h) ==
    IF h.mem[operations] = <<>> THEN m.fake_operation ELSE operations

\* returns the dict {endpoint: operations}; operations is an address
build_detail_path(m, h) ==
    Bind(get_resource_base_uri(m, h), LAMBDA base :
    Bind(detail_step(m, h.next, DetailMethods[3],
             detail_step(m, h.next, DetailMethods[2],
                 detail_step(m, h.next, DetailMethods[1],
                     Return(H_alloc(h, <<>>), h.next)))),
         LAMBDA done :
             Return(done.h,
                    << [k |-> detail_endpoint(m, base.v),
                        v |-> detail_operations(m, h.next, done.h)] >>)))

\* the methods build_list_path looks for, in its order
ListMethods == <<"get", "post">>

\* variant of list_step: an operation is documented only for a resource
\* that declares an ordering
list_step_when_ordered(m, operations, method, s) ==
    Bind(s, LAMBDA before :
         IF ~Contains(before.h.mem[m.schema.allowed_list_http_methods], method)
              \/ ~m.schema.has_ordering
         THEN before
         ELSE Bind(build_list_operation(m, method, before.h), LAMBDA operation :
                   Let(set_operation(operation.h, operations, method, operation.v),
                       LAMBDA stored :
                           Return(IF method = "post"
                                  THEN append_parameter(stored, operations, "post",
                                           build_parameter_for_object(m, "post"))
                                  ELSE stored,
                                  operations))))

\* one `if method in self.schema['allowed_list_http_methods']` block of
\* build_list_path
list_step(m, operations, method, s) ==
    Bind(s, LAMBDA before :
         IF ~Contains(before.h.mem[m.schema.allowed_list_http_methods], method)
         THEN before
         ELSE Bind(build_list_operation(m, method, before.h), LAMBDA operation :
                   Let(set_operation(operation.h, operations, method, operation.v),
                       LAMBDA stored :
                           Return(IF method = "post"
                                  THEN append_parameter(stored, operations, "post",
                                           build_parameter_for_object(m, "post"))
                                  ELSE stored,
                                  operations))))

\* the key of the list path: '/' replaces an empty base URI in the post block
list_endpoint(m, base, h) ==
    IF Contains(h.mem[m.schema.allowed_list_http_methods], "post") /\ base = <<>>
    THEN <<"/">> ELSE base

build_list_path(m, h) ==
    Bind(get_resource_base_uri(m, h), LAMBDA base :
    Bind(list_step(m, h.next, ListMethods[2],
             list_step(m, h.next, ListMethods[1],
                 Return(H_alloc(h, <<>>), h.next))),
         LAMBDA done :
             Return(done.h,
                    << [k |-> list_endpoint(m, base.v, done.h), v |-> h.next] >>)))

\* the key of an extra action's path
extra_endpoint(m, base, extra_action) ==
    IF extra_action.resource_type = "list"
    THEN base \o <<extra_action.name, "/">>
    ELSE base \o <<"{", detail_uri_name(m), "}", "/", extra_action.name, "/">>

\* an extra action's path holds the operation dict itself
extra_path_item(operation) ==
    << [k |-> "summary", v |-> operation.summary],
       [k |-> "tags", v |-> operation.tags],
       [k |-> "parameters", v |-> operation.parameters],
       [k |-> "responses", v |-> operation.responses] >>

RECURSIVE extra_actions_loop(_, _, _, _)
extra_actions_loop(m, actions, extra_paths, h) ==
    IF actions = <<>> THEN Return(h, extra_paths)
    ELSE Bind(get_resource_base_uri(m, h), LAMBDA base :
         Bind(build_extra_operation(m, Head(actions), h), LAMBDA operation :
              extra_actions_loop(m, Tail(actions),
                  DictSet(extra_paths, extra_endpoint(m, base.v, Head(actions)),
                          operation.h.next),
                  H_alloc(operation.h, extra_path_item(operation.v)))))

build_extra_paths(m, h) ==
    IF resources[m.resource].has_extra_actions
    THEN extra_actions_loop(m, resources[m.resource].extra_actions, <<>>, h)
    ELSE Return(h, <<>>)

build_paths(m, h) ==
    Bind(build_detail_path(m, h), LAMBDA detail :
    Bind(build_list_path(m, detail.h), LAMBDA list :
    Bind(build_extra_paths(m, list.h), LAMBDA extra :
         Return(extra.h,
                DictUpdate(DictUpdate(DictUpdate(<<>>, detail.v), list.v), extra.v)))))

(***************************************************************************)
(* Module-level functions of mapping.py                                    *)
(***************************************************************************)

\* getattr(sys.modules[path], obj, None)
module_attribute(path, obj) ==
    IF HasKey(DictGet(SysModules, path), obj)
    THEN DictGet(DictGet(SysModules, path), obj)
    ELSE NoneObject

\* one entry of the module list: lines 599-610.  Returns the Api's name.
resolve_api_module(entry) ==
    IF entry.keys # EntryKeys THEN [err |-> "KeyError", v |-> ""]
    ELSE IF ~HasKey(SysModules, entry.path)
    THEN [err |-> "ImproperlyConfigured", v |-> ""]
    ELSE Let(module_attribute(entry.path, entry.obj), LAMBDA obj :
             IF entry.func_name # "" /\ entry.func_name \notin obj.methods
             THEN [err |-> "AttributeError", v |-> ""]
             ELSE IF entry.func_name = "" /\ obj.class # "Api"
             THEN [err |-> "ImproperlyConfigured", v |-> ""]
             ELSE [err |-> "none", v |-> obj.api])

RECURSIVE api_module_loop(_, _)
api_module_loop(entries, tastypie_api_list) ==
    IF entries = <<>> THEN [err |-> "none", v |-> tastypie_api_list]
    ELSE Let(resolve_api_module(Head(entries)), LAMBDA tastypie_api :
             IF tastypie_api.err # "none"
             THEN [err |-> tastypie_api.err, v |-> <<>>]
             ELSE api_module_loop(Tail(entries),
                                  Append(tastypie_api_list, tastypie_api.v)))

build_tastypie_api_list ==
    IF "TASTYPIE_SWAGGER_API_MODULE_LIST" \notin settings.present
         \/ settings.TASTYPIE_SWAGGER_API_MODULE_LIST = <<>>
    THEN [err |-> "ImproperlyConfigured", v |-> <<>>]
    ELSE api_module_loop(settings.TASTYPIE_SWAGGER_API_MODULE_LIST, <<>>)

\* sorted(tastypie_api._registry): the names in string order
NameRank == ("a" :> 1) @@ ("b" :> 2) @@ ("c" :> 3)

sorted_names(registry) ==
    [i \in 1..Len(registry) |->
        CHOOSE n \in KeySet(registry) :
            Cardinality({o \in KeySet(registry) : NameRank[o] < NameRank[n]}) = i - 1]

\* json.loads(doc): ValueError for text that is not JSON, else the value
json_loads(doc) ==
    IF doc.kind = "prose" THEN [err |-> "ValueError", v |-> doc]
    ELSE [err |-> "none", v |-> doc]

\* dict.update(value) for a parsed JSON value, element by element; what was
\* stored before an element raises stays stored
RECURSIVE update_pairs(_, _, _)
update_pairs(paths, elems, h) ==
    IF elems = <<>> THEN Return(h, paths)
    ELSE IF Head(elems).type = "number" THEN [h |-> h, err |-> "TypeError", v |-> paths]
    ELSE IF Head(elems).type # "pair" THEN [h |-> h, err |-> "ValueError", v |-> paths]
    ELSE update_pairs(
             DictSet(paths, Head(elems).k, h.next + 1),
             Tail(elems),
             H_alloc(H_alloc(h, CustomOperation.parameters),
                     << [k |-> Head(elems).v,
                         v |-> [CustomOperation EXCEPT !.parameters = h.next]] >>))

dict_update(paths, value, h) ==
    CASE value.kind \in {"number", "null"} -> [h |-> h, err |-> "TypeError", v |-> paths]
      [] value.kind = "string" ->
            IF value.text = <<>> THEN Return(h, paths)
            ELSE [h |-> h, err |-> "ValueError", v |-> paths]
      [] OTHER -> update_pairs(paths, value.elems, h)

\* paths.update(mapping.build_paths())
update_with_built_paths(mapping, paths, h) ==
    Bind(build_paths(mapping, h), LAMBDA generated :
         Return(generated.h, DictUpdate(paths, generated.v)))

\* the try block: paths.update(json.loads(doc))
update_with_doc(doc, paths, h) ==
    Let(json_loads(doc), LAMBDA loaded :
        IF loaded.err # "none" THEN [h |-> h, err |-> loaded.err, v |-> paths]
        ELSE dict_update(paths, loaded.v, h))

\* the body of the loop over the registered resources: lines 619-629
resource_paths(r, paths, h) ==
    Let(ResourceSwaggerMapping(r, h), LAMBDA mapping :
        IF resources[r].doc.kind = "none"
        THEN update_with_built_paths(mapping.v, paths, mapping.h)
        ELSE Let(update_with_doc(resources[r].doc, paths, mapping.h), LAMBDA tried :
                 IF tried.err = "ValueError"
                 THEN update_with_built_paths(mapping.v, tried.v, tried.h)
                 ELSE tried))

RECURSIVE registry_loop(_, _, _, _)
registry_loop(registry, names, paths, h) ==
    IF names = <<>> THEN Return(h, paths)
    ELSE Bind(resource_paths(DictGet(registry, Head(names)), paths, h), LAMBDA done :
              registry_loop(registry, Tail(names), done.v, done.h))

RECURSIVE api_loop(_, _, _)
api_loop(tastypie_api_list, paths, h) ==
    IF tastypie_api_list = <<>> THEN Return(h, paths)
    ELSE Bind(registry_loop(Registry(Head(tastypie_api_list)),
                            sorted_names(Registry(Head(tastypie_api_list))),
                            paths, h),
              LAMBDA done : api_loop(Tail(tastypie_api_list), done.v, done.h))

build_openapi_paths(tastypie_api_list, h) == api_loop(tastypie_api_list, <<>>, h)

\* the settings a call with this server_url looks up when nothing raises
SettingsRead(server_url) ==
    {"TASTYPIE_SWAGGER_OPEN_API_INFO", "TASTYPIE_SWAGGER_API_MODULE_LIST"}
        \cup (IF server_url = "" THEN {"TASTYPIE_SWAGGER_SERVER_URL"} ELSE {})

\* variant of open_api_spec: the server URL is also recorded in the info
\* dict of the settings (info['x-server-url'] = server_url)
open_api_spec_annotating_info(info, server_url, h) ==
    Let(build_tastypie_api_list, LAMBDA tastypie_api_list :
        IF tastypie_api_list.err # "none"
        THEN [h |-> h, err |-> tastypie_api_list.err, v |-> <<>>]
        ELSE Bind(build_openapi_paths(tastypie_api_list.v,
                      H_write(h, info, DictSet(h.mem[info], "x-server-url", server_url))),
                  LAMBDA paths :
                  Return(paths.h,
                         << [k |-> "openapi", v |-> "3.0.1"],
                            [k |-> "info", v |-> info],
                            [k |-> "servers", v |-> << [url |-> server_url] >>],
                            [k |-> "paths", v |-> paths.v] >>)))

\* variant of open_api_spec: the server is given Swagger-2 style, as a
\* top-level 'host' string, instead of the OpenAPI 3 'servers' list
open_api_spec_with_host(info, server_url, h) ==
    Let(build_tastypie_api_list, LAMBDA tastypie_api_list :
        IF tastypie_api_list.err # "none"
        THEN [h |-> h, err |-> tastypie_api_list.err, v |-> <<>>]
        ELSE Bind(build_openapi_paths(tastypie_api_list.v, h), LAMBDA paths :
                  Return(paths.h,
                         << [k |-> "openapi", v |-> "3.0.1"],
                            [k |-> "info", v |-> info],
                            [k |-> "host", v |-> server_url],
                            [k |-> "paths", v |-> paths.v] >>)))

\* lines 638-651: the document, once info and server_url are known
open_api_spec(info, server_url, h) ==
    Let(build_tastypie_api_list, LAMBDA tastypie_api_list :
        IF tastypie_api_list.err # "none"
        THEN [h |-> h, err |-> tastypie_api_list.err, v |-> <<>>]
        ELSE Bind(build_openapi_paths(tastypie_api_list.v, h), LAMBDA paths :
                  Return(paths.h,
                         << [k |-> "openapi", v |-> "3.0.1"],
                            [k |-> "info", v |-> info],
                            [k |-> "servers", v |-> << [url |-> server_url] >>],
                            [k |-> "paths", v |-> paths.v] >>)))

\* variant of build_openapi_spec: TASTYPIE_SWAGGER_SERVER_URL is looked up
\* before server_url is tested
build_openapi_spec_reading_setting(server_url, h) ==
    IF "TASTYPIE_SWAGGER_OPEN_API_INFO" \notin settings.present
    THEN [h |-> h, err |-> "AttributeError", v |-> <<>>,
          read |-> {"TASTYPIE_SWAGGER_OPEN_API_INFO"}]
    ELSE IF "TASTYPIE_SWAGGER_SERVER_URL" \notin settings.present
    THEN [h |-> h, err |-> "AttributeError", v |-> <<>>,
          read |-> {"TASTYPIE_SWAGGER_OPEN_API_INFO", "TASTYPIE_SWAGGER_SERVER_URL"}]
    ELSE Let(open_api_spec(settings.TASTYPIE_SWAGGER_OPEN_API_INFO,
                           IF server_url = ""
                           THEN settings.TASTYPIE_SWAGGER_SERVER_URL
                           ELSE server_url,
                           h),
             LAMBDA spec : [h |-> spec.h, err |-> spec.err, v |-> spec.v,
                            read |-> SettingsRead("")])

\* server_url = "" stands for None.  `read` is the set of settings looked up.
build_openapi_spec(server_url, h) ==
    IF "TASTYPIE_SWAGGER_OPEN_API_INFO" \notin settings.present
    THEN [h |-> h, err |-> "AttributeError", v |-> <<>>,
          read |-> {"TASTYPIE_SWAGGER_OPEN_API_INFO"}]
    ELSE IF server_url = "" /\ "TASTYPIE_SWAGGER_SERVER_URL" \notin settings.present
    THEN [h |-> h, err |-> "AttributeError", v |-> <<>>,
          read |-> {"TASTYPIE_SWAGGER_OPEN_API_INFO", "TASTYPIE_SWAGGER_SERVER_URL"}]
    ELSE Let(open_api_spec(settings.TASTYPIE_SWAGGER_OPEN_API_INFO,
                           IF server_url = ""
                           THEN settings.TASTYPIE_SWAGGER_SERVER_URL
                           ELSE server_url,
                           h),
             LAMBDA spec : [h |-> spec.h, err |-> spec.err, v |-> spec.v,
                            read |-> SettingsRead(server_url)])

(***************************************************************************)
(* json.dumps: the value a document denotes, and its serialisation         *)
(***************************************************************************)

OperationKeys == {"summary", "tags", "parameters", "responses"}

SnapshotOperation(h, operation) ==
    IF "parameters" \in DOMAIN operation
    THEN [operation EXCEPT !.parameters = h.mem[@]]
    ELSE operation

SnapshotItem(h, item) ==
    [i \in 1..Len(item) |->
       [k |-> item[i].k,
        v |-> IF item[i].k = "parameters" THEN h.mem[item[i].v]
              ELSE IF item[i].k \in OperationKeys THEN item[i].v
              ELSE SnapshotOperation(h, item[i].v)]]

SnapshotPaths(h, paths) ==
    [i \in 1..Len(paths) |->
       [k |-> paths[i].k, v |-> SnapshotItem(h, h.mem[paths[i].v])]]

\* the document with every address replaced by the contents it refers to
Snapshot(h, doc) ==
    [i \in 1..Len(doc) |->
       [k |-> doc[i].k,
        v |-> CASE doc[i].k = "info" -> h.mem[doc[i].v]
                [] doc[i].k = "paths" -> SnapshotPaths(h, doc[i].v)
                [] OTHER -> doc[i].v]]

RECURSIVE Flatten(_)
Flatten(ss) == IF ss = <<>> THEN <<>> ELSE Head(ss) \o Flatten(Tail(ss))

DumpBool(b) == IF b THEN "true" ELSE "false"

DumpParameter(p) ==
    <<"{", "in", ":", p.in, "name", ":">> \o p.name
        \o <<"required", ":", DumpBool(p.required), "description", ":">>
        \o p.description \o <<"schema", ":", p.schema, "}">>

DumpParameters(ps) ==
    <<"[">> \o Flatten([i \in 1..Len(ps) |-> DumpParameter(ps[i])]) \o <<"]">>

DumpOperation(operation) ==
    IF "parameters" \in DOMAIN operation
    THEN <<"{", "summary", ":">> \o operation.summary \o <<"tags", ":">>
             \o operation.tags \o <<"parameters", ":">>
             \o DumpParameters(operation.parameters)
             \o <<"responses", ":", operation.responses.default.description, "}">>
    ELSE <<"{", "description", ":", operation.description, "tags", ":">>
             \o operation.tags
             \o <<"responses", ":", operation.responses.default.description, "}">>

DumpItem(item) ==
    <<"{">>
    \o Flatten([i \in 1..Len(item) |->
          <<item[i].k, ":">>
          \o (CASE item[i].k = "parameters" -> DumpParameters(item[i].v)
                [] item[i].k \in {"summary", "tags"} -> item[i].v
                [] item[i].k = "responses" -> <<item[i].v.default.description>>
                [] OTHER -> DumpOperation(item[i].v))])
    \o <<"}">>

DumpPaths(paths) ==
    <<"{">>
    \o Flatten([i \in 1..Len(paths) |->
          <<"'">> \o paths[i].k \o <<"'", ":">> \o DumpItem(paths[i].v)])
    \o <<"}">>

json_dumps(doc) ==
    <<"{">>
    \o Flatten([i \in 1..Len(doc) |->
          <<doc[i].k, ":">>
          \o (CASE doc[i].k = "info" ->
                     Flatten([j \in 1..Len(doc[i].v) |->
                                <<doc[i].v[j].k, ":", doc[i].v[j].v>>])
                [] doc[i].k = "servers" ->
                     Flatten([j \in 1..Len(doc[i].v) |-> <<"url", ":", doc[i].v[j].url>>])
                [] doc[i].k = "paths" -> DumpPaths(doc[i].v)
                [] OTHER -> <<doc[i].v>>)])
    \o <<"}">>


(***************************************************************************)
(* The file system seen by the build_api_docs command                      *)
(***************************************************************************)

FileName(stem, ext) == [stem |-> stem, ext |-> ext]
File(name, kind, data) == [name |-> name, kind |-> kind, data |-> data]

IndexHtml == FileName("index", "html")

\* the package's static directory (swagger_static_dir)
StaticFiles ==
    {File(FileName("swagger-ui", "js"), "static", <<>>),
     File(FileName("swagger-ui", "css"), "static", <<>>),
     File(FileName("swagger-ui.js", "map"), "static", <<>>)}

\* what an earlier run or somebody else left in the destination
StaleFiles ==
    {File(FileName("notes", "txt"), "stale", <<>>),
     File(IndexHtml, "stale", <<>>)}

Absent == [exists |-> FALSE, files |-> {}]

\* fnmatch.fnmatch(name, pattern) for patterns of the form stem.ext with '*'
fnmatch(name, pattern) ==
    /\ pattern.stem \in {"*", name.stem}
    /\ pattern.ext \in {"*", name.ext}

\* variant of copytree: the ignore patterns are not applied
copytree_without_ignore(files, patterns) == files

\* shutil.copytree(src, dst, ignore=shutil.ignore_patterns(*patterns)):
\* the files of the new directory
copytree(files, patterns) ==
    {f \in files : ~\E i \in 1..Len(patterns) : fnmatch(f.name, patterns[i])}

\* render_to_string('tastypie_swagger/index.html', context)
render_to_string(ctx) ==
    <<"<title>", ctx.index_title, "</title>", ctx.STATIC_URL>> \o ctx.json_spec

(***************************************************************************)
(* Initial states: the settings, the resource classes and the disk as the  *)
(* project defines them.                                                   *)
(***************************************************************************)

InfoDict == << [k |-> "title", v |-> "Demo API"], [k |-> "version", v |-> "1.0"] >>

MakeHeap(list_a, detail_a, list_b, detail_b) ==
    (SummariesAddr :> OPERATION_SUMMARIES) @@ (InfoAddr :> InfoDict)
    @@ (ListMethodsAddr(1) :> list_a) @@ (DetailMethodsAddr(1) :> detail_a)
    @@ (ListMethodsAddr(2) :> list_b) @@ (DetailMethodsAddr(2) :> detail_b)
    @@ (ListMethodsAddr(3) :> <<"get">>) @@ (DetailMethodsAddr(3) :> <<"put">>)

MakeResources(a, b) == (1 :> a) @@ (2 :> b) @@ (3 :> ResourceC)

ListMethodChoices == {<<>>, <<"get">>, <<"post">>, <<"get", "post", "put">>}
DetailMethodChoices == {<<>>, <<"get">>, <<"delete">>, <<"put", "patch">>,
                        <<"post", "patch">>, <<"get", "put", "delete">>}

ModuleLists ==
    {<<>>, <<EntryV1>>, <<EntryV2>>, <<EntryRouter>>, <<EntryV1, EntryV2>>,
     <<EntryV2, EntryNotApi>>}
    \cup {<<e>> : e \in InvalidEntries}

DiskChoices ==
    {[dest |-> Absent, ignore |-> <<>>],
     [dest |-> [exists |-> TRUE, files |-> StaleFiles], ignore |-> <<>>],
     [dest |-> [exists |-> TRUE, files |-> StaleFiles],
      ignore |-> <<FileName("*", "map")>>]}

\* resources that differ in their allowed methods
MethodScenarios ==
    {[settings |-> Settings(SettingNames, <<EntryV1>>, FALSE, <<>>),
      resources |-> MakeResources(ResourceA, ResourceB),
      heap |-> MakeHeap(la, da, IF same THEN la ELSE <<"post">>,
                        IF same THEN da ELSE <<"get", "put">>)] :
       la \in ListMethodChoices, da \in DetailMethodChoices, same \in BOOLEAN}

\* resources that differ in their docstring and in their URLs
DocScenarios ==
    {[settings |-> Settings(SettingNames, <<EntryV1, EntryV2>>, slash, <<>>),
      resources |-> MakeResources([ResourceA EXCEPT !.url_resolves = ua],
                                  [ResourceB EXCEPT !.doc = doc, !.url_resolves = ub]),
      heap |-> MakeHeap(<<"get", "post">>, <<"get", "put", "delete">>, <<"post">>, <<>>)] :
       doc \in Docs, ua \in BOOLEAN, ub \in BOOLEAN, slash \in BOOLEAN}

\* projects that differ in their settings
ConfigScenarios ==
    {[settings |-> Settings(present, module_list, FALSE, <<>>),
      resources |-> MakeResources(ResourceA, ResourceB),
      heap |-> MakeHeap(<<"get">>, <<"get", "put">>, <<"get", "post">>, <<"delete">>)] :
       present \in SUBSET SettingNames, module_list \in ModuleLists}

\* a resource related to itself
SelfRelatedA == [ResourceA EXCEPT !.related = << [k |-> "owner", v |-> 1] >>]

\* a resource related back to the resource that filters across it
BackRelatedB ==
    [ResourceB EXCEPT
        !.fields = @ \o << [k |-> "editor",
                            v |-> Field("related", FALSE, FALSE,
                                        "A single related resource.")] >>,
        !.filtering = @ \o << [k |-> "editor", v |-> ALL_WITH_RELATIONS] >>,
        !.related = << [k |-> "editor", v |-> 1] >>]

\* resources whose ALL_WITH_RELATIONS filters lead back to themselves
CycleScenarios ==
    {[settings |-> Settings(SettingNames, <<EntryV1>>, FALSE, <<>>),
      resources |-> MakeResources(a, b),
      heap |-> MakeHeap(la, <<"get">>, lb, <<>>)] :
       a \in {ResourceA, SelfRelatedA}, b \in {ResourceB, BackRelatedB},
       la \in {<<"get">>, <<"post">>}, lb \in {<<"get">>, <<"post">>}}

Scenarios ==
    MethodScenarios \cup DocScenarios \cup ConfigScenarios \cup CycleScenarios

\* the server_url arguments of build_openapi_spec: "" for None (the
\* command), the root URL of the request (the view)
RootUrls == {"http://docs.example/", "http://localhost:8000/"}
ServerUrlArgs == {""} \cup RootUrls

NoBuild == [kind |-> "none"]
NoContext == [status |-> "none", root |-> "", json_spec |-> <<>>,
              index_title |-> "", error |-> ""]

Init ==
    /\ \E sc \in Scenarios, disk \in DiskChoices :
         /\ settings = [sc.settings EXCEPT
                           !.TASTYPIE_SWAGGER_IGNORE_PATTERN_LIST = disk.ignore]
         /\ resources = sc.resources
         /\ heap = sc.heap
         /\ dest = disk.dest
    /\ built = [a \in ServerUrlArgs |-> NoBuild]
    /\ context = NoContext
    /\ pc = "idle"
    /\ stdout = <<>>


(***************************************************************************)
(* Calls of build_openapi_spec                                             *)
(***************************************************************************)

\* a call starts with the live objects and allocates from FirstFree on
CallHeap == [mem |-> heap, next |-> FirstFree, writes |-> {}]

\* the objects that outlive the call
Persist(h) == [a \in SharedAddrs |-> h.mem[a]]

\* what a call did: the document returned (by value) or the exception
\* raised, the settings looked up and the addresses mutated
Outcome(result) ==
    [kind |-> IF result.err = "none" THEN "ok" ELSE "error",
     doc |-> IF result.err = "none" THEN Snapshot(result.h, result.v) ELSE <<>>,
     error |-> IF result.err = "none" THEN "" ELSE result.err,
     read |-> result.read,
     writes |-> result.h.writes]

(***************************************************************************)
(* views.py: GET of the documentation page (urls.py routes r'^$' to it)    *)
(***************************************************************************)

\* context.update({'json_spec': json.dumps(...), 'index_title': ...})
get_context_data(root, result) ==
    [status |-> IF result.err = "none" THEN "ok" ELSE "error",
     root |-> root,
     json_spec |-> IF result.err = "none"
                   THEN json_dumps(Snapshot(result.h, result.v)) ELSE <<>>,
     index_title |-> "Swagger UI",
     error |-> IF result.err = "none" THEN "" ELSE result.err]

\* the request, given what build_openapi_spec(server_url=root) does
Respond(root, result) ==
    /\ heap' = Persist(result.h)
    /\ built' = [built EXCEPT ![root] = Outcome(result)]
    /\ context' = get_context_data(root, result)
    /\ UNCHANGED <<settings, resources, pc, stdout, dest>>

\* SwaggerView.get_context_data for a request whose root URL is `root`
ViewGet(root) == Respond(root, build_openapi_spec(root, CallHeap))

(***************************************************************************)
(* management/commands/build_api_docs.py: Command.handle, step by step     *)
(***************************************************************************)

\* the command is invoked
Handle ==
    /\ pc \in {"idle", "done", "failed"}
    /\ pc' = "remove"
    /\ stdout' = <<>>
    /\ UNCHANGED <<settings, resources, heap, built, context, dest>>

\* _remove_outdated_docs
RemoveOutdatedDocs ==
    /\ pc = "remove"
    /\ IF dest.exists
       THEN /\ stdout' = Append(stdout, "Remove outdated api docs")
            /\ dest' = Absent
       ELSE UNCHANGED <<stdout, dest>>
    /\ pc' = "copy_static"
    /\ UNCHANGED <<settings, resources, heap, built, context>>

\* _copy_static_file: copytree raises when the destination exists
CopyStaticFile ==
    /\ pc = "copy_static"
    /\ stdout' = Append(stdout, "Copy static files")
    /\ IF dest.exists
       THEN /\ pc' = "failed"
            /\ UNCHANGED dest
       ELSE /\ pc' = "copy_index"
            /\ dest' = [exists |-> TRUE,
                        files |-> copytree(StaticFiles,
                                      settings.TASTYPIE_SWAGGER_IGNORE_PATTERN_LIST)]
    /\ UNCHANGED <<settings, resources, heap, built, context>>

\* _compile_index
compile_index(result) ==
    render_to_string([index_title |-> "Swagger UI",
                      STATIC_URL |-> "./",
                      json_spec |-> json_dumps(Snapshot(result.h, result.v))])

\* open(index_path, 'w') then f.write(self._compile_index()): the files of
\* the destination afterwards
written_index(files, result) ==
    {f \in files : f.name # IndexHtml}
        \cup {IF result.err = "none"
              THEN File(IndexHtml, "index", compile_index(result))
              ELSE File(IndexHtml, "empty", <<>>)}

\* _copy_index, given what build_openapi_spec() does
WriteIndex(result) ==
    IF ~dest.exists
    THEN /\ pc' = "failed"
         /\ stdout' = Append(stdout, "Copy index.html")
         /\ UNCHANGED <<dest, heap, built>>
    ELSE /\ stdout' = stdout \o <<"Copy index.html", "Compiling index.html">>
         /\ heap' = Persist(result.h)
         /\ built' = [built EXCEPT ![""] = Outcome(result)]
         /\ pc' = IF result.err = "none" THEN "print_done" ELSE "failed"
         /\ dest' = [dest EXCEPT !.files = written_index(dest.files, result)]

CopyIndex ==
    /\ pc = "copy_index"
    /\ WriteIndex(build_openapi_spec("", CallHeap))
    /\ UNCHANGED <<settings, resources, context>>

\* self.stdout.write('Done!')
PrintDone ==
    /\ pc = "print_done"
    /\ stdout' = Append(stdout, "Done!")
    /\ pc' = "done"
    /\ UNCHANGED <<settings, resources, heap, built, context, dest>>

Next ==
    \/ \E root \in RootUrls : ViewGet(root)
    \/ Handle
    \/ RemoveOutdatedDocs
    \/ CopyStaticFile
    \/ CopyIndex
    \/ PrintDone

Spec == Init /\ [][Next]_vars

(***************************************************************************)
(* Properties.  built[u] is what the latest call                           *)
(* build_openapi_spec(server_url = u) did, u = "" being the call without   *)
(* a server_url; the documents are compared by value.                      *)
(***************************************************************************)

\* the server_url arguments whose latest call returned a document
Returned == {u \in ServerUrlArgs : built[u].kind = "ok"}

\* the Api list the settings configure, <<>> when they configure none
ConfiguredApis ==
    IF build_tastypie_api_list.err = "none" THEN build_tastypie_api_list.v ELSE <<>>

\* the resources the configured Apis register
Registered ==
    UNION {{Registry(ConfiguredApis[i])[j].v :
                j \in 1..Len(Registry(ConfiguredApis[i]))} :
           i \in 1..Len(ConfiguredApis)}

\* the value of build_openapi_paths(tastypie_api_list) in this state
CurrentPaths ==
    Let(build_openapi_paths(ConfiguredApis, CallHeap),
        LAMBDA paths : SnapshotPaths(paths.h, paths.v))

\* C1: whenever build_openapi_spec returns, the document has exactly the
\* four top-level keys openapi, info, servers and paths; openapi is '3.0.1',
\* info is the TASTYPIE_SWAGGER_OPEN_API_INFO setting, servers is the list
\* of the one entry {url: server_url} (the TASTYPIE_SWAGGER_SERVER_URL
\* setting when no server_url is passed), and paths is build_openapi_paths
\* of the configured Api list.
C1_DocumentShape ==
    \A u \in Returned :
        /\ Len(built[u].doc) = 4
        /\ KeySet(built[u].doc) = {"openapi", "info", "servers", "paths"}
        /\ DictGet(built[u].doc, "openapi") = "3.0.1"
        /\ DictGet(built[u].doc, "info") = heap[settings.TASTYPIE_SWAGGER_OPEN_API_INFO]
        /\ DictGet(built[u].doc, "servers")
             = << [url |-> IF u = "" THEN settings.TASTYPIE_SWAGGER_SERVER_URL ELSE u] >>
        /\ DictGet(built[u].doc, "paths") = CurrentPaths

\* a document was returned to the command and another to the view, and
\* their paths are not empty
C1_Witness ==
    /\ "" \in Returned
    /\ \E u \in RootUrls : u \in Returned /\ DictGet(built[u].doc, "paths") # <<>>

\* the resources whose paths the mapping generates: registered, and with
\* no docstring
Generated == {r \in Registered : resources[r].doc.kind = "none"}

\* the mapping build_openapi_paths creates for resource r
MappingOf(r) == ResourceSwaggerMapping(r, CallHeap).v

\* the keys of the list path and of the detail path of resource r
ListKey(r) == list_endpoint(MappingOf(r), ResourceUri(r), CallHeap)
DetailKey(r) == detail_endpoint(MappingOf(r), ResourceUri(r))

\* schema['allowed_list_http_methods'] and ['allowed_detail_http_methods']
AllowedList(r) == heap[ListMethodsAddr(r)]
AllowedDetail(r) == heap[DetailMethodsAddr(r)]

Elements(list) == {list[i] : i \in 1..Len(list)}

\* the path item under `key` in the document returned for u
PathItem(u, key) == DictGet(DictGet(built[u].doc, "paths"), key)

\* C2: the operation keys under a resource's list endpoint and under its
\* detail endpoint are a function of the allowed-method lists alone: two
\* resources, or two builds, with equal allowed_list_http_methods get the
\* same operation keys on the list endpoint, and with equal
\* allowed_detail_http_methods the same on the detail endpoint, whatever
\* their fields, filtering, ordering or other metadata.
C2_OperationsFromAllowedMethods ==
    \A u1 \in Returned, u2 \in Returned :
        \A r1 \in Generated, r2 \in Generated :
            /\ AllowedList(r1) = AllowedList(r2)
                 => KeySet(PathItem(u1, ListKey(r1))) = KeySet(PathItem(u2, ListKey(r2)))
            /\ AllowedDetail(r1) = AllowedDetail(r2)
                 => KeySet(PathItem(u1, DetailKey(r1)))
                      = KeySet(PathItem(u2, DetailKey(r2)))

\* two builds returned, and two resources that differ in their fields,
\* filtering and ordering have the same non-empty allowed-method lists
C2_Witness ==
    /\ \E u1 \in Returned, u2 \in Returned : u1 # u2
    /\ \E r1 \in Generated, r2 \in Generated :
          /\ r1 # r2
          /\ AllowedList(r1) = AllowedList(r2) /\ "get" \in Elements(AllowedList(r1))
          /\ AllowedDetail(r1) = AllowedDetail(r2) /\ AllowedDetail(r1) # <<>>
          /\ resources[r1].has_ordering # resources[r2].has_ordering
          /\ resources[r1].fields # resources[r2].fields
          /\ resources[r1].filtering # resources[r2].filtering

\* the operations of a path item that carry a parameter list
WithParameters(item) ==
    {i \in 1..Len(item) : "parameters" \in DOMAIN item[i].v}

\* every operation of the item starts with the path identifier
IsDetailItem(item) ==
    \A i \in WithParameters(item) :
        item[i].v.parameters # <<>> /\ item[i].v.parameters[1].in = "path"

\* no operation of the item has a path parameter
IsListItem(item) ==
    /\ WithParameters(item) = 1..Len(item)
    /\ \A i \in 1..Len(item) :
          \A j \in 1..Len(item[i].v.parameters) : item[i].v.parameters[j].in # "path"

\* C3: no list endpoint key (the base URI, or '/' when it is empty and POST
\* is allowed) equals a detail endpoint key (the base URI joined with
\* '{<detail_uri_name>}' and the trailing slash), within a resource and
\* across the registered resources; in the merged paths the entry under a
\* list key is a list entry and the entry under a detail key is a detail
\* entry: neither overwrites the other.
C3_ListAndDetailKeysDisjoint ==
    /\ \A r1 \in Registered, r2 \in Registered : ListKey(r1) # DetailKey(r2)
    /\ \A u \in Returned : \A r \in Generated :
          /\ HasKey(DictGet(built[u].doc, "paths"), ListKey(r))
          /\ HasKey(DictGet(built[u].doc, "paths"), DetailKey(r))
          /\ IsListItem(PathItem(u, ListKey(r)))
          /\ IsDetailItem(PathItem(u, DetailKey(r)))

\* a document was returned whose paths merge two resources with list and
\* detail operations, one of them with an empty base URI and POST allowed
C3_Witness ==
    \E u \in Returned : \E r1 \in Generated, r2 \in Generated :
        /\ r1 # r2
        /\ ResourceUri(r1) = <<>> /\ ListKey(r1) = <<"/">>
        /\ PathItem(u, ListKey(r1)) # <<>>
        /\ PathItem(u, ListKey(r2)) # <<>>
        /\ WithParameters(PathItem(u, DetailKey(r1))) # {}
        /\ WithParameters(PathItem(u, DetailKey(r2))) # {}

\* {get, put, delete} intersected with schema['allowed_detail_http_methods']
DetailMethodsOf(r) == {"get", "put", "delete"} \cap Elements(AllowedDetail(r))

\* the value of a mapping's fake_operation
PlaceholderOf(r) ==
    << [k |-> "get",
        v |-> [description |-> "Unable to get relevant information",
               tags |-> <<resources[r].module, resources[r].api_name>>,
               responses |-> [default |->
                   [description |-> "Unable to get relevant information"]]]] >>

\* C10: the operations under a resource's detail endpoint are exactly
\* {get, put, delete} intersected with allowed_detail_http_methods; when
\* the intersection is empty the detail path carries the single placeholder
\* 'get' operation (fake_operation); a put operation has exactly two
\* parameters, the path identifier followed by the resource object
\* parameter.
C10_DetailOperations ==
    \A u \in Returned : \A r \in Generated :
        /\ DetailMethodsOf(r) # {}
             => KeySet(PathItem(u, DetailKey(r))) = DetailMethodsOf(r)
        /\ DetailMethodsOf(r) = {}
             => PathItem(u, DetailKey(r)) = PlaceholderOf(r)
        /\ "put" \in DetailMethodsOf(r)
             => /\ Len(DictGet(PathItem(u, DetailKey(r)), "put").parameters) = 2
                /\ DictGet(PathItem(u, DetailKey(r)), "put").parameters[1].in = "path"
                /\ DictGet(PathItem(u, DetailKey(r)), "put").parameters[1].name
                     = <<IF resources[r].detail_uri_name = "pk" THEN "id"
                         ELSE resources[r].detail_uri_name>>
                /\ DictGet(PathItem(u, DetailKey(r)), "put").parameters[2].in = "query"
                /\ DictGet(PathItem(u, DetailKey(r)), "put").parameters[2].name
                     = <<resources[r].resource_name>>
                /\ DictGet(PathItem(u, DetailKey(r)), "put").parameters[2].required

\* a document was returned for a resource that allows only post and patch
\* on its detail endpoint and for a resource that allows put
C10_Witness ==
    \E u \in Returned : \E r1 \in Generated, r2 \in Generated :
        /\ Elements(AllowedDetail(r1)) = {"post", "patch"}
        /\ PathItem(u, DetailKey(r1)) = PlaceholderOf(r1)
        /\ "put" \in DetailMethodsOf(r2)
        /\ KeySet(PathItem(u, DetailKey(r2))) = DetailMethodsOf(r2)

\* C4: re-invoking the build on the same registry, settings and server_url
\* returns the same document each time (and so the same JSON text), and
\* the builds for different server_url arguments agree on everything but
\* the servers entry: a build never changes what the next build produces.
C4_BuildIdempotent ==
    /\ [](\A u1 \in Returned, u2 \in Returned :
            /\ DictGet(built[u1].doc, "paths") = DictGet(built[u2].doc, "paths")
            /\ DictGet(built[u1].doc, "info") = DictGet(built[u2].doc, "info"))
    /\ [][\A u \in ServerUrlArgs :
            built[u].kind # "none"
              => /\ built'[u].kind = built[u].kind
                 /\ built'[u].error = built[u].error
                 /\ built'[u].doc = built[u].doc
                 /\ json_dumps(built'[u].doc) = json_dumps(built[u].doc)]_vars

\* the build was invoked for every server_url argument, each call returned
\* a document with paths, and the command and the view can invoke it again
C4_Witness ==
    /\ Returned = ServerUrlArgs
    /\ DictGet(built[""].doc, "paths") # <<>>
    /\ pc = "done"
    /\ context.status = "ok"

\* C7: a call of build_openapi_spec leaves the registry, the resources'
\* metadata, the allowed-method lists of the schemas and the settings as
\* they were, and the objects it mutates are objects the same call created.
C7_NoSharedMutableState ==
    /\ [](\A u \in ServerUrlArgs :
            built[u].kind # "none"
              => \A a \in built[u].writes : a \notin SharedAddrs /\ a >= FirstFree)
    /\ [][heap' = heap /\ resources' = resources /\ settings' = settings]_vars

\* a call returned after appending the object parameter to a put and to a
\* post operation and installing the fallback operation
C7_Witness ==
    \E u \in Returned :
        /\ built[u].writes # {}
        /\ \E r \in Generated : "post" \in Elements(AllowedList(r))
        /\ \E r \in Generated : "put" \in DetailMethodsOf(r)
        /\ \E r \in Generated : PathItem(u, DetailKey(r)) = PlaceholderOf(r)

\* the entry resolves to a tastypie Api instance
ValidEntry(e) ==
    /\ e.keys = {"path", "obj", "func_name"}
    /\ HasKey(SysModules, e.path)
    /\ HasKey(DictGet(SysModules, e.path), e.obj)
    /\ IF e.func_name = ""
       THEN DictGet(DictGet(SysModules, e.path), e.obj).class = "Api"
       ELSE e.func_name \in DictGet(DictGet(SysModules, e.path), e.obj).methods

\* a required setting is missing for the call with server_url u, or an
\* entry of the module list is invalid
Misconfigured(u) ==
    \/ "TASTYPIE_SWAGGER_API_MODULE_LIST" \notin settings.present
    \/ settings.TASTYPIE_SWAGGER_API_MODULE_LIST = <<>>
    \/ "TASTYPIE_SWAGGER_OPEN_API_INFO" \notin settings.present
    \/ u = "" /\ "TASTYPIE_SWAGGER_SERVER_URL" \notin settings.present
    \/ \E i \in 1..Len(settings.TASTYPIE_SWAGGER_API_MODULE_LIST) :
          ~ValidEntry(settings.TASTYPIE_SWAGGER_API_MODULE_LIST[i])

\* C5: whenever a required setting is missing or an entry of the module
\* list is invalid, build_openapi_spec ends in ImproperlyConfigured, in no
\* other error kind, and returns no document.
C5_MisconfigurationRaisesImproperlyConfigured ==
    \A u \in ServerUrlArgs :
        built[u].kind # "none" /\ Misconfigured(u)
          => /\ built[u].kind = "error"
             /\ built[u].error = "ImproperlyConfigured"
             /\ built[u].doc = <<>>

\* the value of mapping.build_paths() for resource r in this state
BuiltPaths(r) ==
    Let(ResourceSwaggerMapping(r, CallHeap), LAMBDA mapping :
    Let(build_paths(mapping.v, mapping.h), LAMBDA paths :
        SnapshotPaths(paths.h, paths.v)))

\* C6: for every registered resource whose docstring is not empty and is
\* not a JSON object of paths (prose, invalid JSON, or a JSON number,
\* string, list or null), the build raises no error and the resource
\* contributes exactly mapping.build_paths(): its generated entries are in
\* the paths, and the paths hold nothing but generated entries.
C6_MalformedDocstringFallsBack ==
    \A u \in ServerUrlArgs : \A r \in Registered :
        built[u].kind # "none" /\ ~Misconfigured(u) /\ resources[r].doc \in MalformedDocs
          => /\ built[u].kind = "ok"
             /\ \A i \in 1..Len(BuiltPaths(r)) :
                   /\ HasKey(DictGet(built[u].doc, "paths"), BuiltPaths(r)[i].k)
                   /\ PathItem(u, BuiltPaths(r)[i].k) = BuiltPaths(r)[i].v
             /\ KeySet(DictGet(built[u].doc, "paths"))
                   \subseteq UNION {KeySet(BuiltPaths(q)) : q \in Registered}

\* the messages of a run of the command, without the optional first one
CommandMessages ==
    <<"Copy static files", "Copy index.html", "Compiling index.html", "Done!">>

\* the index.html compiled from build_openapi_spec() in this state
CurrentIndex ==
    File(IndexHtml, "index", compile_index(build_openapi_spec("", CallHeap)))

\* C8: the command runs remove, copy static, write index, print 'Done!'
\* in this order; when it has printed 'Done!' the destination holds the
\* static files that match no ignore pattern and the index.html compiled
\* from the current build_openapi_spec(), and nothing else.
C8_CommandOrderAndResult ==
    /\ [](pc = "done"
            => /\ dest.exists
               /\ \A f \in StaticFiles :
                     f \in dest.files
                       <=> ~\E i \in 1..Len(settings.TASTYPIE_SWAGGER_IGNORE_PATTERN_LIST) :
                              fnmatch(f.name, settings.TASTYPIE_SWAGGER_IGNORE_PATTERN_LIST[i])
               /\ dest.files \ StaticFiles = {CurrentIndex}
               /\ dest.files \cap StaleFiles = {}
               /\ stdout \in {CommandMessages,
                              <<"Remove outdated api docs">> \o CommandMessages})
    /\ [][pc' # pc
            => \/ pc \in {"idle", "done", "failed"} /\ pc' = "remove"
               \/ pc = "remove" /\ pc' = "copy_static" /\ ~dest'.exists
               \/ pc = "copy_static" /\ pc' \in {"copy_index", "failed"}
               \/ pc = "copy_index" /\ pc' \in {"print_done", "failed"}
               \/ pc = "print_done" /\ pc' = "done"]_vars

\* the command printed 'Done!' over a destination that held other files,
\* with an ignore pattern that matches a static file
C8_Witness ==
    /\ pc = "done"
    /\ stdout[1] = "Remove outdated api docs"
    /\ settings.TASTYPIE_SWAGGER_IGNORE_PATTERN_LIST # <<>>
    /\ dest.files # {}
    /\ StaticFiles \ dest.files # {}

\* C9: the view puts into context['json_spec'] the serialisation of
\* build_openapi_spec(server_url = root URL of the request), whose single
\* servers entry is that root URL; TASTYPIE_SWAGGER_SERVER_URL is looked
\* up by the calls without server_url (the command's) and by no other.
C9_ViewEmbedsSpecOfRequest ==
    /\ context.status = "ok"
         => /\ context.root \in RootUrls
            /\ Let(build_openapi_spec(context.root, CallHeap), LAMBDA result :
                   /\ result.err = "none"
                   /\ context.json_spec = json_dumps(Snapshot(result.h, result.v)))
            /\ DictGet(built[context.root].doc, "servers") = << [url |-> context.root] >>
    /\ \A u \in ServerUrlArgs :
          built[u].kind # "none"
            => ("TASTYPIE_SWAGGER_SERVER_URL" \in built[u].read
                  <=> u = "" /\ "TASTYPIE_SWAGGER_OPEN_API_INFO" \in settings.present)

\* the view served a request while TASTYPIE_SWAGGER_SERVER_URL is not set,
\* and the command's build, which needs the setting, failed
C9_Witness ==
    /\ context.status = "ok"
    /\ context.json_spec # <<>>
    /\ "TASTYPIE_SWAGGER_SERVER_URL" \notin settings.present
    /\ built[""].kind = "error"

\* the generated resources whose list and detail keys no other registered
\* resource shares, so that the entries under them in the merged paths are
\* their own
Documented ==
    {r \in Generated :
        \A q \in Registered \ {r} :
            ListKey(q) # ListKey(r) /\ DetailKey(q) # DetailKey(r)}

\* the HTTP methods an operation of a path item can be keyed by
HttpMethods == {"get", "put", "post", "delete", "options", "head", "patch", "trace"}

\* C11: every path item of build_paths (the detail path, the list path and
\* every extra-action path) carries at least one operation, whatever the
\* allowed list and detail methods are; a resource that allows neither GET
\* nor POST on its list endpoint still gets a non-empty list path item.
C11_PathItemsNotEmpty ==
    \A u \in Returned : \A r \in Generated :
        \A k \in KeySet(BuiltPaths(r)) :
            /\ PathItem(u, k) # <<>>
            /\ KeySet(PathItem(u, k)) \cap HttpMethods # {}

\* the name get_resource_verbose_name gives, as the claim uses it
VerboseNameOf(r, plural) ==
    IF resources[r].has_model
    THEN Lower(IF plural THEN resources[r].verbose_name_plural
                         ELSE resources[r].verbose_name)
    ELSE resources[r].resource_name

\* the summary of the operation `method` on the endpoint of kind `kind`:
\* the OPERATION_SUMMARIES entry of that pair, formatted, '' without entry
SummaryFor(r, method, kind) ==
    CASE method = "get" /\ kind = "detail" ->
             <<"Retrieve a single ", VerboseNameOf(r, FALSE), " by ID">>
      [] method = "put" /\ kind = "detail" ->
             <<"Update an existing ", VerboseNameOf(r, FALSE)>>
      [] method = "delete" /\ kind = "detail" ->
             <<"Delete an existing ", VerboseNameOf(r, FALSE)>>
      [] method = "get" /\ kind = "list" ->
             <<"Retrieve a list of ", VerboseNameOf(r, TRUE)>>
      [] method = "post" /\ kind = "list" ->
             <<"Create a new ", VerboseNameOf(r, FALSE)>>
      [] OTHER -> <<>>

\* C12: the summary of each generated operation is the OPERATION_SUMMARIES
\* entry of its own method and endpoint kind, formatted with the resource's
\* verbose name (plural for a list GET), and empty for a pair without
\* entry.
C12_SummaryOfMethodAndKind ==
    \A u \in Returned : \A r \in Documented :
        /\ \A method \in DetailMethodsOf(r) :
              DictGet(PathItem(u, DetailKey(r)), method).summary
                  = SummaryFor(r, method, "detail")
        /\ \A method \in KeySet(PathItem(u, ListKey(r))) :
              DictGet(PathItem(u, ListKey(r)), method).summary
                  = SummaryFor(r, method, "list")

\* the parameters of the operation `method` of the list path of r
ListParameters(u, r, method) == DictGet(PathItem(u, ListKey(r)), method).parameters

\* the positions of the parameters called `name`, with or without prefix
Named(ps, name) == {i \in 1..Len(ps) : ps[i].name[Len(ps[i].name)] = name}

\* C13: a list GET has limit and offset as its first two parameters, in
\* this order, each once, optional and without prefix, whatever the
\* filtering is; they are not emitted for a related resource (a prefixed
\* name) nor for another method; order_by is added exactly when the schema
\* has an 'ordering' key and the method is GET, as the last parameter.
C13_NavigationAndOrdering ==
    \A u \in Returned : \A r \in Documented :
        /\ "get" \in Elements(AllowedList(r))
             => /\ Len(ListParameters(u, r, "get")) >= 2
                /\ ListParameters(u, r, "get")[1].name = <<"limit">>
                /\ ListParameters(u, r, "get")[2].name = <<"offset">>
                /\ Named(ListParameters(u, r, "get"), "limit") = {1}
                /\ Named(ListParameters(u, r, "get"), "offset") = {2}
                /\ \A i \in {1, 2} :
                      /\ ~ListParameters(u, r, "get")[i].required
                      /\ ListParameters(u, r, "get")[i].in = "query"
                /\ Named(ListParameters(u, r, "get"), "order_by")
                     = IF resources[r].has_ordering
                       THEN {Len(ListParameters(u, r, "get"))} ELSE {}
        /\ "post" \in Elements(AllowedList(r))
             => /\ Named(ListParameters(u, r, "post"), "limit") = {}
                /\ Named(ListParameters(u, r, "post"), "offset") = {}
                /\ Named(ListParameters(u, r, "post"), "order_by") = {}

\* a document was returned with a list GET and a list POST of a resource
\* that has an ordering and a filter across a relation whose parameters
\* are in the list, and with a list GET of a resource without ordering
C13_Witness ==
    \E u \in Returned : \E r \in Documented, q \in Documented :
        /\ {"get", "post"} \subseteq Elements(AllowedList(r))
        /\ resources[r].has_ordering
        /\ \E i \in 1..Len(ListParameters(u, r, "get")) :
              Len(ListParameters(u, r, "get")[i].name) > 3
        /\ "get" \in Elements(AllowedList(q))
        /\ ~resources[q].has_ordering
        /\ Len(ListParameters(u, q, "get")) > 2

\* the terms a filtering entry stands for
TermsOf(field) ==
    CASE field.kind = "ALL" -> {"exact", "contains", "gt"}
      [] field.kind = "ALL_WITH_RELATIONS" -> {"gt", "in", "gte", "lt", "lte", "exact"}
      [] OTHER -> Elements(field.terms)

\* the name of the parameter of a term of the filter on `name`
FilterName(prefix, name, term) ==
    IF term = "exact" THEN prefix \o <<name>> ELSE prefix \o <<name, "__", term>>

\* the names of the parameters of the filtering entries of r on fields of
\* its schema
FilterNames(r, prefix) ==
    UNION {{FilterName(prefix, e.k, t) : t \in TermsOf(e.v)} :
           e \in {x \in Elements(resources[r].filtering) :
                     HasKey(resources[r].fields, x.k)}}

\* the names of the parameters of the resources related to r through an
\* ALL_WITH_RELATIONS filter
RelatedFilterNames(r) ==
    UNION {FilterNames(DictGet(resources[r].related, e.k), <<e.k, "__">>) :
           e \in {x \in Elements(resources[r].filtering) :
                     /\ x.v.kind = "ALL_WITH_RELATIONS"
                     /\ HasKey(resources[r].fields, x.k)
                     /\ HasKey(resources[r].related, x.k)}}

\* the parameters of a list that come from filtering
FilterParameters(ps) ==
    {i \in 1..Len(ps) : ps[i].name \notin {<<"limit">>, <<"offset">>, <<"order_by">>}}

\* C14: for a GET, every filtering entry on a field of the schema yields
\* one optional query parameter per term, named <prefix><name> for 'exact'
\* and <prefix><name>__<term> otherwise (ALL standing for the query terms,
\* ALL_WITH_RELATIONS for gt, in, gte, lt, lte, exact), also under the
\* prefix of a relation; an entry on a name that is no field yields no
\* parameter; another method yields no filter parameter.
C14_FilterParameters ==
    \A u \in Returned : \A r \in Documented :
        /\ "get" \in Elements(AllowedList(r))
             => /\ {ListParameters(u, r, "get")[i].name :
                       i \in FilterParameters(ListParameters(u, r, "get"))}
                     = FilterNames(r, <<>>) \cup RelatedFilterNames(r)
                /\ Cardinality(FilterParameters(ListParameters(u, r, "get")))
                     = Cardinality(FilterNames(r, <<>>) \cup RelatedFilterNames(r))
                /\ \A i \in FilterParameters(ListParameters(u, r, "get")) :
                      /\ ~ListParameters(u, r, "get")[i].required
                      /\ ListParameters(u, r, "get")[i].in = "query"
        /\ "post" \in Elements(AllowedList(r))
             => /\ Len(ListParameters(u, r, "post")) = 1
                /\ ListParameters(u, r, "post")[1].name = <<resources[r].resource_name>>

\* a document was returned with the list GET of a resource that filters
\* with ALL_WITH_RELATIONS and with term lists, and of a resource that
\* filters with ALL and on a name that is no field, and with a list POST
C14_Witness ==
    \E u \in Returned : \E r \in Documented, q \in Documented :
        /\ {"get", "post"} \subseteq Elements(AllowedList(r))
        /\ RelatedFilterNames(r) # {}
        /\ \E e \in Elements(resources[r].filtering) : e.v.kind = "terms"
        /\ "get" \in Elements(AllowedList(q))
        /\ \E e \in Elements(resources[q].filtering) : e.v.kind = "ALL"
        /\ \E e \in Elements(resources[q].filtering) : ~HasKey(resources[q].fields, e.k)
        /\ FilterParameters(ListParameters(u, q, "get")) # {}

\* r filters with ALL_WITH_RELATIONS across a relation to q
FiltersAcross(r, q) ==
    \E e \in Elements(resources[r].filtering) :
        /\ e.v.kind = "ALL_WITH_RELATIONS"
        /\ HasKey(resources[r].fields, e.k)
        /\ HasKey(resources[r].related, e.k)
        /\ DictGet(resources[r].related, e.k) = q

\* every registered resource has no docstring, or one with a JSON object
WellDocumented ==
    \A r \in Registered : resources[r].doc.kind \in {"none", "object"}

\* C15: following ALL_WITH_RELATIONS filters into related resources always
\* ends, also when a resource is related to itself or two resources are
\* related to each other: a call of build_openapi_spec ends by returning
\* the document or, for a misconfigured project, in ImproperlyConfigured.
C15_RelationCyclesEnd ==
    \A u \in ServerUrlArgs :
        built[u].kind # "none" /\ ~Misconfigured(u) /\ WellDocumented
          => \/ built[u].kind = "ok"
             \/ built[u].error = "ImproperlyConfigured"

====
